---- MODULE Spec2Model ----
(***************************************************************************)
(* Model of src/osint_aggregator.py: the ingestion pass, the enrichment    *)
(* client with its fallback, the articles table and the reprocessing       *)
(* workflow (--retry-fallbacks).                                           *)
(*                                                                         *)
(* Strings are sequences of tokens.  A token stands for a substring that   *)
(* the string operations of the program treat as a unit: "SP" is           *)
(* whitespace (removed by strip), "SEP" is ' - ' (the separator written by *)
(* create_summary and split on by the reprocessor), "DOTS" is '...',       *)
(* "NL" is a newline, the E_* tokens are the emoji markers, and the        *)
(* remaining tokens are words.  None is the one-token sequence <<"None">>. *)
(***************************************************************************)
EXTENDS Integers, Sequences, FiniteSets, TLC

\* ------------------------------------------------------------------------
\* Bounds of the model
\* ------------------------------------------------------------------------
MaxRuns == 2
MaxItems == 2
MaxParams == 2
MaxTokens == 2
MaxWrites == 3

\* ------------------------------------------------------------------------
\* Program constants
\* ------------------------------------------------------------------------
max_retries == 3
initial_delay == 5
RATE_LIMIT_DELAY == 4
MIN_TEXT_LEN == 50
RETRYABLE_STATUS == {503, 408, 500, 502, 504}

\* the categories named in the prompt
categories == {<<"Malware Analysis">>, <<"Vulnerability Disclosure">>,
               <<"Threat Actor Profile">>, <<"Data Breach Report">>,
               <<"Geopolitical Cyber Event">>, <<"General Cyber News">>}

Procs == {1, 2}

None == <<"None">>
NoDate == <<>>
NoText == <<"None">>

\* ------------------------------------------------------------------------
\* Input domains
\* ------------------------------------------------------------------------
Urls == {"u1", "u2"}
SourceNames == {"RSS: A", "Google Alert: k"}
Days == {1, 2}
\* datetimes as <<day, time of day>>: the dates a source gives its items,
\* and the dates newspaper finds in a scraped page
DefaultDates == {<<1, 0>>}
PublishDates == {<<2, 7>>}
\* the (title, description) pairs a source can yield
Candidates == {<<<<"a">>, <<"b">>>>, <<<<"SP", "a", "SEP", "c">>, <<"b", "DOTS", "SP">>>>}
\* article text as <<leading whitespace, stripped length, trailing whitespace>>
Texts == {<<2, 49, 0>>, <<0, 50, 1>>}
\* (data.get('summary'), data.get('category')) of a parsed response
AiResults == {<<<<"x">>, <<"Malware Analysis">>>>, <<<<"y">>, <<"Celebrity Gossip">>>>,
              <<<<>>, <<"Malware Analysis">>>>, <<None, None>>}
Statuses == {200, 503, 408, 500, 502, 504, 400, 429}

\* ------------------------------------------------------------------------
\* String helpers (Python str methods on token sequences)
\* ------------------------------------------------------------------------
RECURSIVE lstrip(_)
lstrip(s) ==
    IF s # <<>> /\ Head(s) = "SP" THEN lstrip(Tail(s)) ELSE s

RECURSIVE rstrip(_)
rstrip(s) ==
    IF s # <<>> /\ s[Len(s)] = "SP" THEN rstrip(SubSeq(s, 1, Len(s) - 1)) ELSE s

strip(s) == rstrip(lstrip(s))

\* s.replace(tok, "")
remove(s, tok) == SelectSeq(s, LAMBDA t : t # tok)

\* s.split(sep) for a one-token separator: a sequence of token sequences
RECURSIVE split(_, _)
split(s, sep) ==
    IF \A i \in 1..Len(s) : s[i] # sep
    THEN <<s>>
    ELSE LET i == CHOOSE k \in 1..Len(s) :
                      s[k] = sep /\ \A j \in 1..(k - 1) : s[j] # sep
         IN  <<SubSeq(s, 1, i - 1)>> \o split(SubSeq(s, i + 1, Len(s)), sep)

\* sep.join(parts)
RECURSIVE join(_, _)
join(parts, sep) ==
    IF parts = <<>> THEN <<>>
    ELSE IF Len(parts) = 1 THEN parts[1]
    ELSE parts[1] \o sep \o join(Tail(parts), sep)

\* len(text) and len(text.strip()) of an article text
text_len(t) == t[1] + t[2] + t[3]
text_strip_len(t) == t[2]

\* datetime.strftime('%A, %B %d, %Y'): only the day is written
DayToken(day) == IF day = 1 THEN "Monday, January 01, 2024" ELSE "Tuesday, January 02, 2024"
strftime(d) == <<DayToken(d[1])>>

\* datetime.strptime(s, '%A, %B %d, %Y'): midnight of the day; <<>> when the
\* string does not match the format (ValueError)
strptime(s) ==
    IF \E day \in Days : s = <<DayToken(day)>>
    THEN <<CHOOSE day \in Days : s = <<DayToken(day)>>, 0>>
    ELSE NoDate

\* ------------------------------------------------------------------------
\* Fallback tag generator
\* ------------------------------------------------------------------------
keyword_map == <<
    [keyword |-> "ransomware", tag |-> "#Ransomware", emoji |-> "E_money"],
    [keyword |-> "healthcare", tag |-> "#Healthcare", emoji |-> "E_hospital"],
    [keyword |-> "attack", tag |-> "#CyberAttack", emoji |-> "E_boom"],
    [keyword |-> "breach", tag |-> "#DataBreach", emoji |-> "E_lock"],
    [keyword |-> "vulnerability", tag |-> "#Vulnerability", emoji |-> "E_warning"],
    [keyword |-> "hacker", tag |-> "#Hacking", emoji |-> "E_laptop"],
    [keyword |-> "ai", tag |-> "#AI", emoji |-> "E_robot"],
    [keyword |-> "android", tag |-> "#Android", emoji |-> "E_robot"],
    [keyword |-> "ios", tag |-> "#iOS", emoji |-> "E_phone"],
    [keyword |-> "microsoft", tag |-> "#Microsoft", emoji |-> "E_laptop"],
    [keyword |-> "critical infrastructure", tag |-> "#CriticalInfrastructure", emoji |-> "E_factory"],
    [keyword |-> "phishing", tag |-> "#Phishing", emoji |-> "E_hook"],
    [keyword |-> "malware", tag |-> "#Malware", emoji |-> "E_alien"] >>

\* str.lower() on a token
lower(tok) ==
    CASE tok = "Ransomware" -> "ransomware"
      [] tok = "Samsung Android" -> "samsung android"
      [] tok = "Microsoft" -> "microsoft"
      [] tok = "AI-powered" -> "ai-powered"
      [] OTHER -> tok

\* the keywords of keyword_map that are substrings of a token
substrings(tok) ==
    CASE tok = "ransomware" -> {"ransomware"}
      [] tok = "malware" -> {"malware"}
      [] tok = "email" -> {"ai"}
      [] tok = "ai-powered" -> {"ai"}
      [] tok = "samsung android" -> {"android"}
      [] tok = "microsoft" -> {"microsoft"}
      [] tok = "hackers" -> {"hacker"}
      [] OTHER -> {}

\* the keywords that occur as substrings of the lower-cased token
KeywordsOfToken(tok) == substrings(lower(tok))

\* keyword in text.lower()
keyword_in(keyword, text) ==
    \E i \in 1..Len(text) : keyword \in KeywordsOfToken(text[i])

RECURSIVE scan_emojis(_, _, _)
scan_emojis(text, k, emojis) ==
    IF k > Len(keyword_map) THEN emojis
    ELSE IF keyword_in(keyword_map[k].keyword, text)
              /\ \A i \in 1..Len(emojis) : emojis[i] # keyword_map[k].emoji
         THEN scan_emojis(text, k + 1, Append(emojis, keyword_map[k].emoji))
         ELSE scan_emojis(text, k + 1, emojis)

\* generate_tags_and_emojis(text): the set of hashtags and the list of emojis
generate_hashtags(text) ==
    {"#Cybersecurity"} \cup
    {keyword_map[k].tag : k \in {j \in 1..Len(keyword_map) :
                                     keyword_in(keyword_map[j].keyword, text)}}

\* mutant of generate_emojis: no default pair
generate_emojis_no_default(text) == scan_emojis(text, 1, <<>>)

generate_emojis(text) ==
    LET emojis == scan_emojis(text, 1, <<>>)
    IN  IF emojis = <<>> THEN <<"E_siren", "E_shield">> ELSE emojis

\* list(hashtags): the iteration order of a Python set of strings is not
\* fixed, every ordering of the set is a possible list
HashtagOrders(tags) ==
    {s \in [1..Cardinality(tags) -> tags] : \A t \in tags : \E i \in DOMAIN s : s[i] = t}

create_summary(title, snippet) ==
    remove(strip(title) \o <<"SEP">> \o strip(snippet), "DOTS")

\* ------------------------------------------------------------------------
\* Rendered post (post_content) and its re-parsing by the reprocessor
\* ------------------------------------------------------------------------
\* process_article, normal branch: the f-string written to post_content
render_post(category, display_date, summary, emojis, hashtags, url) ==
    <<"CATEGORY: ">> \o category \o <<"NL">>
    \o <<"Published: ">> \o strftime(display_date) \o <<"NL">>
    \o summary \o emojis \o <<"NL">>
    \o join([i \in DOMAIN hashtags |-> <<hashtags[i]>>], <<"SP">>) \o <<"NL">>
    \o <<url>> \o <<"NL">>

\* process_article, Slack branch
render_slack_post(slack_date, slack_summary, emojis, hashtags, url) ==
    <<"CATEGORY: ">> \o <<"Human Verified">> \o <<"NL">>
    \o <<"Published: ">> \o strftime(slack_date) \o <<"NL">>
    \o slack_summary \o <<" [VERIFIED BY SLACK]">> \o emojis \o <<"NL">>
    \o join([i \in DOMAIN hashtags |-> <<hashtags[i]>>], <<"SP">>) \o <<"NL">>
    \o <<url>> \o <<"NL">>

\* retry_fallback_summaries, loop body before the call of process_article
post_lines(post_content) == split(post_content, "NL")
parsed_title(post_content) == split(post_lines(post_content)[3], "SEP")[1]
parsed_description(post_content) ==
    join(Tail(split(post_lines(post_content)[3], "SEP")), <<"SP">>)
parsed_date(post_content) ==
    strptime(remove(post_lines(post_content)[2], "Published: "))

\* ------------------------------------------------------------------------
\* The articles table
\* ------------------------------------------------------------------------
\* mutant of setup_database: the table is dropped and created again
setup_database_recreate(arts) == {}

\* setup_database: CREATE TABLE IF NOT EXISTS (and main_topic added when it
\* is missing) keeps the rows there are
setup_database(arts) == arts

\* mutant of is_url_in_db: the lookup never finds the row
is_url_in_db_never(arts, url) == FALSE

\* mutant of is_url_in_db: only rows with an AI summary count as stored
is_url_in_db_ai_only(arts, url) ==
    \E r \in arts : r.url = url /\ r.source_indicator = "ai"

is_url_in_db(arts, url) == \E r \in arts : r.url = url

\* INSERT under the UNIQUE constraint on url; an IntegrityError is swallowed
\* mutant of add_post_to_db: the url column is not UNIQUE
add_post_to_db_not_unique(arts, next_id, now, source_name, post_content, url, source_indicator, main_topic) ==
    arts \cup {[id |-> next_id, url |-> url, source_name |-> source_name,
                post_content |-> post_content,
                source_indicator |-> source_indicator,
                main_topic |-> main_topic, created_at |-> now]}

add_post_to_db(arts, next_id, now, source_name, post_content, url, source_indicator, main_topic) ==
    IF \E r \in arts : r.url = url
    THEN arts
    ELSE arts \cup {[id |-> next_id, url |-> url, source_name |-> source_name,
                     post_content |-> post_content,
                     source_indicator |-> source_indicator,
                     main_topic |-> main_topic, created_at |-> now]}

\* mutant of update_post_in_db: the new version is written beside the old row
update_post_in_db_keep_old(arts, url, new_post_content, new_source_indicator, new_main_topic) ==
    arts \cup {[r EXCEPT !.post_content = new_post_content,
                         !.source_indicator = new_source_indicator,
                         !.main_topic = new_main_topic] : r \in {x \in arts : x.url = url}}

\* mutant of update_post_in_db: main_topic is left out of the UPDATE
update_post_in_db_no_topic(arts, url, new_post_content, new_source_indicator, new_main_topic) ==
    {IF r.url = url
     THEN [r EXCEPT !.post_content = new_post_content,
                    !.source_indicator = new_source_indicator]
     ELSE r : r \in arts}

\* mutant of update_post_in_db: the UPDATE stamps created_at as well
update_post_in_db_restamp(arts, url, new_post_content, new_source_indicator, new_main_topic) ==
    {IF r.url = url
     THEN [r EXCEPT !.post_content = new_post_content,
                    !.source_indicator = new_source_indicator,
                    !.main_topic = new_main_topic,
                    !.created_at = @ + 1]
     ELSE r : r \in arts}

update_post_in_db(arts, url, new_post_content, new_source_indicator, new_main_topic) ==
    {IF r.url = url
     THEN [r EXCEPT !.post_content = new_post_content,
                    !.source_indicator = new_source_indicator,
                    !.main_topic = new_main_topic]
     ELSE r : r \in arts}


\* mutant of select_fallbacks: the WHERE clause on source_indicator is missing
select_fallbacks_any_indicator(arts, source_to_retry) ==
    {r \in arts : source_to_retry # "" => r.source_name = source_to_retry}

\* mutant of select_fallbacks: the source filter is never applied
select_fallbacks_unfiltered(arts, source_to_retry) ==
    {r \in arts : r.source_indicator = "fallback"}

\* SELECT url, source_name, post_content ... WHERE source_indicator = 'fallback'
\* [AND source_name = ?]; the filter is applied only when it is non-empty
select_fallbacks(arts, source_to_retry) ==
    {r \in arts : r.source_indicator = "fallback"
                  /\ (source_to_retry # "" => r.source_name = source_to_retry)}

\* the rows of a result set in rowid order
RECURSIVE rows_by_id(_)
rows_by_id(rows) ==
    IF rows = {} THEN <<>>
    ELSE LET r == CHOOSE x \in rows : \A y \in rows : x.id <= y.id
         IN  <<[url |-> r.url, source_name |-> r.source_name,
                post_content |-> r.post_content]>> \o rows_by_id(rows \ {r})

\* ------------------------------------------------------------------------
\* State
\* ------------------------------------------------------------------------
VARIABLES
    articles,       \* the rows of table articles
    db_seq,         \* sqlite_sequence of articles (AUTOINCREMENT)
    clock,          \* CURRENT_TIMESTAMP
    api_key_set,    \* whether api_key was replaced by a real key
    slack_enabled,  \* SLACK_CONFIG enabled with a configured token
    runs,           \* number of invocations of main so far
    pc,             \* position of each invocation
    run,            \* main: remaining sources, slack_cache, exit status
    src,            \* parse_google_alert / process_rss_feed: loop and stats
    retry,          \* retry_fallback_summaries: result set, loop, counters
    art,            \* process_article: arguments and locals
    enr,            \* summarize_and_categorize_with_gemini: loop state
    call,           \* argument of a helper function called on its own
    ret,            \* what that call returned
    graph           \* the entities and relationships tables

vars == <<articles, db_seq, clock, api_key_set, slack_enabled, runs,
          pc, run, src, retry, art, enr, call, ret, graph>>

\* no helper is called on its own
NoCall == <<>>

\* the entities and relationships tables, empty, with their row counters;
\* latest is the entity list of the last enrichment written per article
ArticleIds == {1, 2}
InitGraph == [entities |-> {}, relationships |-> {}, ent_seq |-> 0, rel_seq |-> 0,
              latest |-> [a \in ArticleIds |-> {}], writes |-> 0]

GOOGLE_ALERT == "Google Alert: k"
RSS_FEED == "RSS: A"

InitRun == [mode |-> "none", sources |-> <<>>, slack_cache |-> <<>>, exit |-> "none"]
InitSrc == [source_name |-> "", count |-> 0, index |-> 0,
            added |-> 0, skipped |-> 0, failed |-> 0, result |-> "none"]
InitRetry == [source_to_retry |-> "", fallbacks |-> <<>>, index |-> 0,
              total_to_retry |-> 0, successful_heals |-> 0, result |-> "none",
              calls |-> <<>>]
InitArt == [source_name |-> "", title |-> <<>>, url |-> "", description |-> <<>>,
            default_date |-> NoDate, is_retry |-> FALSE, tier |-> "none",
            article_text |-> NoText, publish_date |-> NoDate,
            page |-> "none", fetches |-> 0, sleeps |-> 0,
            summary |-> None, category |-> None]
InitEnr == [attempt |-> 0, sent |-> 0, delays |-> 0, backoffs |-> 0,
            slept |-> FALSE, undelayed |-> 0, status_code |-> 0, outcome |-> "none"]

Init ==
    /\ articles = {}
    /\ db_seq = 0
    /\ clock = 0
    /\ api_key_set \in BOOLEAN
    /\ slack_enabled \in BOOLEAN
    /\ runs = 0
    /\ pc = [p \in Procs |-> "idle"]
    /\ run = [p \in Procs |-> InitRun]
    /\ src = [p \in Procs |-> InitSrc]
    /\ retry = [p \in Procs |-> InitRetry]
    /\ art = [p \in Procs |-> InitArt]
    /\ enr = [p \in Procs |-> InitEnr]
    /\ call = NoCall
    /\ ret = NoCall
    /\ graph = InitGraph

\* ------------------------------------------------------------------------
\* main
\* ------------------------------------------------------------------------
\* the invocation ends (main returns, sys.exit, or an uncaught exception):
\* only its exit status outlives the process
Exit(p, status) ==
    /\ run' = [run EXCEPT ![p] = [InitRun EXCEPT !.exit = status]]
    /\ pc' = [pc EXCEPT ![p] = "idle"]
    /\ src' = [src EXCEPT ![p] = InitSrc]
    /\ retry' = [retry EXCEPT ![p] = InitRetry]
    /\ art' = [art EXCEPT ![p] = InitArt]
    /\ enr' = [enr EXCEPT ![p] = InitEnr]

\* main with SLACK_CONFIG enabled and a token: fetch_slack_articles uses
\* re.compile, and module re is never imported, so the invocation dies with
\* a NameError before any source is read
MainSlackCrash(p) ==
    /\ pc[p] = "idle"
    /\ runs < MaxRuns
    /\ slack_enabled
    /\ articles' = setup_database(articles)
    /\ runs' = runs + 1
    /\ clock' = clock + 1
    /\ run' = [run EXCEPT ![p] = [InitRun EXCEPT !.exit = "NameError"]]
    /\ UNCHANGED <<db_seq, api_key_set, slack_enabled, pc, src, retry, art, enr>>

\* main, normal run, with the slack_cache it hands down to process_article:
\* get_gmail_service returns a service (the alert keywords are read first)
\* or None (only the feeds are read)
main_normal(p, slack_cache) ==
    /\ pc[p] = "idle"
    /\ runs < MaxRuns
    /\ \E service \in BOOLEAN :
          run' = [run EXCEPT ![p] =
                     [mode |-> "normal",
                      sources |-> IF service THEN <<GOOGLE_ALERT, RSS_FEED>>
                                  ELSE <<RSS_FEED>>,
                      slack_cache |-> slack_cache, exit |-> "none"]]
    /\ articles' = setup_database(articles)
    /\ runs' = runs + 1
    /\ clock' = clock + 1
    /\ pc' = [pc EXCEPT ![p] = "source"]
    /\ UNCHANGED <<db_seq, api_key_set, slack_enabled, src, retry, art, enr>>

\* Slack is not enabled: the cache is the empty dict of line 506
MainNormal(p) == ~slack_enabled /\ main_normal(p, <<>>)

\* main, normal run: get_gmail_service finds no credentials.json, sys.exit(1)
MainGmailExit(p) ==
    /\ pc[p] = "idle"
    /\ runs < MaxRuns
    /\ ~slack_enabled
    /\ articles' = setup_database(articles)
    /\ runs' = runs + 1
    /\ clock' = clock + 1
    /\ run' = [run EXCEPT ![p] = [InitRun EXCEPT !.exit = "sys.exit(1)"]]
    /\ UNCHANGED <<db_seq, api_key_set, slack_enabled, pc, src, retry, art, enr>>

\* main --retry-fallbacks [source], with the slack_cache it hands down:
\* retry_fallback_summaries up to the loop
main_retry(p, slack_cache) ==
    /\ pc[p] = "idle"
    /\ runs < MaxRuns
    /\ articles' = setup_database(articles)
    /\ runs' = runs + 1
    /\ clock' = clock + 1
    /\ \E source_to_retry \in SourceNames \cup {""} :
          LET fallbacks == rows_by_id(select_fallbacks(articles, source_to_retry))
          IN  IF fallbacks = <<>>
              THEN \* nothing to re-process: return, generate_report
                   /\ run' = [run EXCEPT ![p] = [InitRun EXCEPT !.exit = "ok"]]
                   /\ UNCHANGED <<pc, retry>>
              ELSE /\ retry' = [retry EXCEPT ![p] =
                                  [source_to_retry |-> source_to_retry,
                                   fallbacks |-> fallbacks, index |-> 0,
                                   total_to_retry |-> Len(fallbacks),
                                   successful_heals |-> 0, result |-> "none",
                                   calls |-> <<>>]]
                   /\ pc' = [pc EXCEPT ![p] = "retry_item"]
                   /\ run' = [run EXCEPT ![p] =
                                 [mode |-> "retry", sources |-> <<>>,
                                  slack_cache |-> slack_cache, exit |-> "none"]]
    /\ UNCHANGED <<db_seq, api_key_set, slack_enabled, src, art, enr>>

MainRetry(p) == ~slack_enabled /\ main_retry(p, <<>>)

\* ------------------------------------------------------------------------
\* process_article: pure parts
\* ------------------------------------------------------------------------
\* truth value of a Python str-or-None
truthy(x) == x # None /\ x # <<>>

source_indicator_of(summary) == IF truthy(summary) THEN "ai" ELSE "fallback"

final_summary(summary, title, description) ==
    IF truthy(summary) THEN summary ELSE create_summary(title, description)

\* mutant of final_category: the fallback branch forgets category = "Unknown"
final_category_unset(summary, category) == category

final_category(summary, category) ==
    IF truthy(summary) THEN category ELSE <<"Unknown">>

display_date_of(publish_date, default_date) ==
    IF publish_date # NoDate THEN publish_date ELSE default_date

\* the post process_article composes from its arguments and locals a, with
\* the hashtags listed in the given order
post_of(a, hashtags) ==
    LET summary == final_summary(a.summary, a.title, a.description)
    IN  render_post(final_category(a.summary, a.category),
                    display_date_of(a.publish_date, a.default_date),
                    summary, generate_emojis(summary), hashtags, a.url)

\* the last statement of process_article: update on a retry, insert otherwise
store_post(arts, next_id, now, is_retry, source_name, post_content, url, source_indicator, category) ==
    IF is_retry
    THEN update_post_in_db(arts, url, post_content, source_indicator, category)
    ELSE add_post_to_db(arts, next_id, now, source_name, post_content, url,
                        source_indicator, category)

\* the Slack branch of process_article
store_slack_post(arts, next_id, now, source_name, post_content, url) ==
    IF is_url_in_db(arts, url)
    THEN update_post_in_db(arts, url, post_content, "slack", <<"Human Verified">>)
    ELSE add_post_to_db(arts, next_id, now, source_name, post_content, url,
                        "slack", <<"Human Verified">>)


\* mutant of count_result: no else branch, a fallback result is not counted
count_result_no_else(st, result) ==
    IF result \in {"ai", "slack"}
    THEN [st EXCEPT !.added = @ + 1, !.index = @ + 1, !.result = result]
    ELSE IF result = "skipped"
    THEN [st EXCEPT !.skipped = @ + 1, !.index = @ + 1, !.result = result]
    ELSE [st EXCEPT !.index = @ + 1, !.result = result]

\* mutant of count_result: a failed item ends the loop of the source
count_result_break_on_failed(st, result) ==
    IF result \in {"ai", "slack"}
    THEN [st EXCEPT !.added = @ + 1, !.index = @ + 1, !.result = result]
    ELSE IF result = "skipped"
    THEN [st EXCEPT !.skipped = @ + 1, !.index = @ + 1, !.result = result]
    ELSE [st EXCEPT !.failed = @ + 1, !.index = st.count, !.result = result]

\* the caller's bookkeeping after process_article returned result:
\* the stats of parse_google_alert / process_rss_feed
count_result(st, result) ==
    IF result \in {"ai", "slack"}
    THEN [st EXCEPT !.added = @ + 1, !.index = @ + 1, !.result = result]
    ELSE IF result = "skipped"
    THEN [st EXCEPT !.skipped = @ + 1, !.index = @ + 1, !.result = result]
    ELSE [st EXCEPT !.failed = @ + 1, !.index = @ + 1, !.result = result]

\* mutant of count_heal: every attempted record counts as healed
count_heal_every(rt, result) ==
    [rt EXCEPT !.successful_heals = @ + 1, !.index = @ + 1, !.result = result]

\* ... and the counter of retry_fallback_summaries
count_heal(rt, result) ==
    IF result = "ai"
    THEN [rt EXCEPT !.successful_heals = @ + 1, !.index = @ + 1, !.result = result]
    ELSE [rt EXCEPT !.index = @ + 1, !.result = result]

\* process_article returns result to its caller; its locals are gone
Return(p, is_retry, result) ==
    /\ art' = [art EXCEPT ![p] = InitArt]
    /\ enr' = [enr EXCEPT ![p] = InitEnr]
    /\ IF is_retry
       THEN /\ retry' = [retry EXCEPT ![p] = count_heal(@, result)]
            /\ pc' = [pc EXCEPT ![p] = "retry_item"]
            /\ src' = src
       ELSE /\ src' = [src EXCEPT ![p] = count_result(@, result)]
            /\ pc' = [pc EXCEPT ![p] = "item"]
            /\ retry' = retry

\* mutant of gate: the Slack cache is not looked at
gate_without_slack(is_retry, arts, url, slack_cache) ==
    IF ~is_retry /\ is_url_in_db(arts, url) THEN "skipped" ELSE "scrape"

\* the two checks at the head of process_article: what becomes of the item
gate(is_retry, arts, url, slack_cache) ==
    IF ~is_retry /\ is_url_in_db(arts, url) THEN "skipped"
    ELSE IF url \in DOMAIN slack_cache THEN "slack"
    ELSE "scrape"

\* process_article from its first statement up to the first network call
\* (or up to its return, when the item is a duplicate or is covered in Slack)
ProcessArticle(p) ==
    /\ pc[p] = "process"
    /\ LET a == art[p]
           branch == gate(a.is_retry, articles, a.url, run[p].slack_cache)
       IN
       IF branch = "skipped"
       THEN /\ Return(p, a.is_retry, "skipped")
            /\ UNCHANGED <<articles, db_seq>>
       ELSE IF branch = "slack"
       THEN LET slack_summary == run[p].slack_cache[a.url][1]
                slack_date == run[p].slack_cache[a.url][2]
            IN  \E hashtags \in HashtagOrders(generate_hashtags(slack_summary)) :
                   LET post_content ==
                           render_slack_post(slack_date, slack_summary,
                                             generate_emojis(slack_summary), hashtags, a.url)
                       stored == store_slack_post(articles, db_seq + 1, clock,
                                                  a.source_name, post_content, a.url)
                   IN  /\ articles' = stored
                       /\ db_seq' = IF Cardinality(stored) > Cardinality(articles)
                                    THEN db_seq + 1 ELSE db_seq
                       /\ Return(p, a.is_retry, "slack")
       ELSE /\ pc' = [pc EXCEPT ![p] = "scrape"]
            /\ UNCHANGED <<articles, db_seq, src, retry, art, enr>>
    /\ UNCHANGED <<clock, api_key_set, slack_enabled, runs, run>>

\* ------------------------------------------------------------------------
\* The ingestion pass: main's loops, parse_google_alert, process_rss_feed
\* ------------------------------------------------------------------------
\* a Google Alert mail as parse_google_alert looks at it: its Date header,
\* whether it is multipart, its first text/html part (none or empty, with
\* or without a charset), the script tag with data-scope inboxmarkup (none,
\* text that is not JSON, {}, {"cards": []}, or cards with widgets) and the
\* number of widgets of type LINK
Digests ==
    {d \in [date : {"ok", "missing", "unparseable"},
            multipart : BOOLEAN,
            html : {"none", "charset", "no_charset"},
            script : {"none", "unparseable", "empty_object", "no_cards", "widgets"},
            links : 0..MaxItems] :
        /\ ~d.multipart => d.html = "none"
        /\ d.script # "widgets" => d.links = 0}

\* parse_google_alert up to its loop: it raises (nothing catches it), it
\* returns without a summary, or it goes through count candidates and
\* prints the summary
parse_google_alert(d) ==
    IF d.date # "ok"
    THEN \* line 321: parsedate_to_datetime(None) or of a string that is no date
         [kind |-> "raise", count |-> 0]
    ELSE IF ~d.multipart \/ d.html = "none"
    THEN \* line 329
         [kind |-> "return", count |-> 0]
    ELSE IF d.html = "no_charset"
    THEN \* line 327: decode(None, 'ignore')
         [kind |-> "raise", count |-> 0]
    ELSE IF d.script = "widgets"
    THEN [kind |-> "summary", count |-> d.links]
    ELSE \* no tag, or json.loads / [0] raises inside the try, or no cards
         [kind |-> "summary", count |-> 0]

\* the numbers of candidates a source can yield
candidate_counts(source_name) ==
    IF source_name = "Google Alert: k"
    THEN {parse_google_alert(d).count : d \in {x \in Digests : parse_google_alert(x).kind = "summary"}}
    ELSE 0..MaxItems

\* the next source is read and yields count candidates
BeginSource(p) ==
    /\ pc[p] = "source"
    /\ run[p].sources # <<>>
    /\ \E count \in candidate_counts(Head(run[p].sources)) :
          src' = [src EXCEPT ![p] = [InitSrc EXCEPT
                     !.source_name = Head(run[p].sources), !.count = count]]
    /\ run' = [run EXCEPT ![p].sources = Tail(@)]
    /\ pc' = [pc EXCEPT ![p] = "item"]
    /\ UNCHANGED <<articles, db_seq, clock, api_key_set, slack_enabled, runs, retry, art, enr>>

\* get_latest_google_alert returns None (no mail, HttpError), or
\* parse_google_alert returns before its loop (no HTML part): the keyword
\* is passed over without a summary
SkipAlert(p) ==
    /\ pc[p] = "source"
    /\ run[p].sources # <<>>
    /\ Head(run[p].sources) = GOOGLE_ALERT
    /\ run' = [run EXCEPT ![p].sources = Tail(@)]
    /\ UNCHANGED <<articles, db_seq, clock, api_key_set, slack_enabled, runs,
                   pc, src, retry, art, enr>>

\* parse_google_alert raises outside its try block (a mail without Date
\* header or without charset): nothing catches it, the invocation dies
AlertUncaught(p) ==
    /\ pc[p] = "source"
    /\ run[p].sources # <<>>
    /\ Head(run[p].sources) = GOOGLE_ALERT
    /\ \E d \in Digests : parse_google_alert(d).kind = "raise"
    /\ Exit(p, "exception")
    /\ UNCHANGED <<articles, db_seq, clock, api_key_set, slack_enabled, runs>>

\* one iteration of the candidate loop: the candidate is read and
\* process_article is called with it
ItemStart(p) ==
    /\ pc[p] = "item"
    /\ src[p].index < src[p].count
    /\ \E c \in Candidates, url \in Urls, date \in DefaultDates :
          art' = [art EXCEPT ![p] = [InitArt EXCEPT
                     !.source_name = src[p].source_name, !.title = c[1],
                     !.url = url, !.description = c[2],
                     !.default_date = date, !.is_retry = FALSE]]
    /\ pc' = [pc EXCEPT ![p] = "process"]
    /\ UNCHANGED <<articles, db_seq, clock, api_key_set, slack_enabled, runs,
                   run, src, retry, enr>>

\* reading a candidate raises (an entry without title or summary): the
\* except clause of the source ends the loop and the summary is printed
ItemRaise(p) ==
    /\ pc[p] = "item"
    /\ src[p].index < src[p].count
    /\ src' = [src EXCEPT ![p].result = "exception"]
    /\ pc' = [pc EXCEPT ![p] = "source"]
    /\ UNCHANGED <<articles, db_seq, clock, api_key_set, slack_enabled, runs,
                   run, retry, art, enr>>

\* the loop is exhausted, the summary of the source is printed
EndSource(p) ==
    /\ pc[p] = "item"
    /\ src[p].index = src[p].count
    /\ pc' = [pc EXCEPT ![p] = "source"]
    /\ UNCHANGED <<articles, db_seq, clock, api_key_set, slack_enabled, runs,
                   run, src, retry, art, enr>>

\* all sources done: generate_report, main returns
EndRun(p) ==
    /\ pc[p] = "source"
    /\ run[p].sources = <<>>
    /\ Exit(p, "ok")
    /\ UNCHANGED <<articles, db_seq, clock, api_key_set, slack_enabled, runs>>

\* ------------------------------------------------------------------------
\* Content extraction
\* ------------------------------------------------------------------------
\* mutant of tier_of: the two tiers are exchanged
tier_of_exchanged(is_retry) == IF is_retry THEN "curl_cffi" ELSE "selenium"

\* the extraction tier process_article calls
tier_of(is_retry) == IF is_retry THEN "selenium" ELSE "curl_cffi"

\* what the GET of a page comes to: the request raises (raise_for_status
\* included), newspaper raises on what was fetched, or a text and a date
Pages ==
    {[kind |-> k, text |-> NoText, date |-> NoDate] : k \in {"get_raises", "parse_raises"}}
    \cup {[kind |-> "ok", text |-> t, date |-> d] : t \in Texts, d \in PublishDates \cup {NoDate}}

\* mutant of scrape_article_details: a failed fetch is tried again after a pause
scrape_article_details_retrying(page) ==
    IF page.kind = "ok"
    THEN [text |-> page.text, date |-> page.date, fetches |-> 1, sleeps |-> 0]
    ELSE [text |-> NoText, date |-> NoDate, fetches |-> 2, sleeps |-> 1]

\* the primary tier: one curl_requests.get in one try block, (None, None)
\* from the except clause
scrape_article_details(page) ==
    IF page.kind = "ok"
    THEN [text |-> page.text, date |-> page.date, fetches |-> 1, sleeps |-> 0]
    ELSE [text |-> NoText, date |-> NoDate, fetches |-> 1, sleeps |-> 0]

\* the heavy tier: one driver.get, then time.sleep(5) for the page to render
scrape_with_selenium(page) ==
    [text |-> page.text, date |-> page.date, fetches |-> 1,
     sleeps |-> IF page.kind = "get_raises" THEN 0 ELSE 1]

\* the call of the extraction tier in process_article
Scrape(p) ==
    /\ pc[p] = "scrape"
    /\ \E page \in Pages :
          LET tier == tier_of(art[p].is_retry)
              scraped == IF tier = "selenium" THEN scrape_with_selenium(page)
                         ELSE scrape_article_details(page)
          IN  art' = [art EXCEPT ![p].article_text = scraped.text,
                                 ![p].publish_date = scraped.date,
                                 ![p].tier = tier,
                                 ![p].page = page.kind,
                                 ![p].fetches = scraped.fetches,
                                 ![p].sleeps = scraped.sleeps]
    /\ pc' = [pc EXCEPT ![p] = "enrich"]
    /\ UNCHANGED <<articles, db_seq, clock, api_key_set, slack_enabled, runs,
                   run, src, retry, enr>>

\* ------------------------------------------------------------------------
\* summarize_and_categorize_with_gemini
\* ------------------------------------------------------------------------
\* mutant of too_short: the length is taken without strip()
too_short_unstripped(text) ==
    text = NoText \/ text_len(text) = 0 \/ text_len(text) < MIN_TEXT_LEN

\* the first guard: not text or len(text.strip()) < 50
too_short(text) ==
    text = NoText \/ text_len(text) = 0 \/ text_strip_len(text) < MIN_TEXT_LEN

\* the two guards before the loop
EnrichBegin(p) ==
    /\ pc[p] = "enrich"
    /\ enr' = [enr EXCEPT ![p] = InitEnr]
    /\ IF too_short(art[p].article_text) \/ ~api_key_set
       THEN /\ art' = [art EXCEPT ![p].summary = None, ![p].category = None]
            /\ pc' = [pc EXCEPT ![p] = "write"]
       ELSE /\ art' = art
            /\ pc' = [pc EXCEPT ![p] = "attempt"]
    /\ UNCHANGED <<articles, db_seq, clock, api_key_set, slack_enabled, runs,
                   run, src, retry>>

\* mutant of more_attempts: the loop runs one iteration more
more_attempts_one_more(attempt) == attempt + 1 <= max_retries

\* for attempt in range(max_retries): whether another iteration follows
more_attempts(attempt) == attempt + 1 < max_retries

\* mutant of except_clause: the last attempt lets the exception go
except_clause_reraise(attempt) ==
    IF attempt < max_retries - 1 THEN "again" ELSE "raise"

\* mutant of except_clause: an exception ends the call on any attempt
except_clause_give_up(attempt) == "return"

\* the except clause of the loop body: sleep and go on, or give up
except_clause(attempt) ==
    IF attempt < max_retries - 1 THEN "again" ELSE "return"

\* mutant of status_clause: 429 is retried like the listed statuses
status_clause_retry_429(status_code, attempt) ==
    IF status_code = 200 THEN "body"
    ELSE IF status_code \in RETRYABLE_STATUS \cup {429}
    THEN IF more_attempts(attempt) THEN "again" ELSE "sleep_return"
    ELSE "return"

\* the branches on response.status_code
status_clause(status_code, attempt) ==
    IF status_code = 200 THEN "body"
    ELSE IF status_code \in RETRYABLE_STATUS
    THEN IF more_attempts(attempt) THEN "again" ELSE "sleep_return"
    ELSE "return"

\* an exception leaves process_article: the except clause of the source
\* ends the candidate loop; the reprocessing loop has none
Raise(p) ==
    IF art[p].is_retry
    THEN Exit(p, "exception")
    ELSE /\ src' = [src EXCEPT ![p].result = "exception"]
         /\ pc' = [pc EXCEPT ![p] = "source"]
         /\ art' = [art EXCEPT ![p] = InitArt]
         /\ enr' = [enr EXCEPT ![p] = InitEnr]
         /\ UNCHANGED <<run, retry>>

\* mutant of rate_limit_sleep: the sleep is taken before the first request only
rate_limit_sleep_first_only(e) ==
    IF e.sent = 0 THEN [e EXCEPT !.delays = @ + 1, !.slept = TRUE] ELSE e

\* time.sleep(4) at the head of the loop body
rate_limit_sleep(e) == [e EXCEPT !.delays = @ + 1, !.slept = TRUE]

\* requests.post: one request; undelayed counts the requests sent with no
\* rate-limit sleep since the request before
post(e) ==
    [e EXCEPT !.sent = @ + 1,
              !.undelayed = IF e.slept THEN @ ELSE @ + 1,
              !.slept = FALSE]

\* time.sleep(initial_delay * 2 ** attempt)
backoff_sleep(e) == [e EXCEPT !.backoffs = @ + 1]

\* one iteration of the retry loop: the rate-limit sleep, the request, and
\* what follows from its outcome.  status_code keeps the status of the
\* last response (0: the request raised) and outcome what became of it;
\* the counters are kept until process_article returns
EnrichAttempt(p) ==
    /\ pc[p] = "attempt"
    /\ LET e == post(rate_limit_sleep(enr[p]))
           seen(status_code, kind) ==
               [e EXCEPT !.status_code = status_code, !.outcome = kind]
           \* the function returns
           return(e2, summary, category) ==
               /\ enr' = [enr EXCEPT ![p] = e2]
               /\ art' = [art EXCEPT ![p].summary = summary, ![p].category = category]
               /\ pc' = [pc EXCEPT ![p] = "write"]
               /\ UNCHANGED <<run, src, retry>>
           \* the backoff sleep, then the next iteration
           again(e2) ==
               /\ enr' = [enr EXCEPT ![p] = [backoff_sleep(e2) EXCEPT !.attempt = @ + 1]]
               /\ UNCHANGED <<art, pc, run, src, retry>>
           outcome(clause, e2) ==
               CASE clause = "again" -> again(e2)
                 [] clause = "return" -> return(e2, None, None)
                 [] clause = "sleep_return" ->
                        \* the sleep of line 214, continue, and the loop is over
                        return(backoff_sleep(e2), None, None)
                 [] clause = "raise" -> Raise(p)
       IN
       \/ \* requests.post raises
          outcome(except_clause(enr[p].attempt), seen(0, "exception"))
       \/ \E status_code \in Statuses :
             LET clause == status_clause(status_code, enr[p].attempt)
             IN  IF clause = "body"
                 THEN \/ \* candidates present and the text parses
                         \E data \in AiResults :
                            return(seen(200, "parsed"), data[1], data[2])
                      \/ \* no candidates
                         return(seen(200, "no_candidates"), None, None)
                      \/ \* response.json or json.loads raises
                         outcome(except_clause(enr[p].attempt), seen(200, "unparseable"))
                 ELSE outcome(clause, seen(status_code, "status"))
    /\ UNCHANGED <<articles, db_seq, clock, api_key_set, slack_enabled, runs>>

\* ------------------------------------------------------------------------
\* process_article after the enrichment call: compose, store, return
\* ------------------------------------------------------------------------
Write(p) ==
    /\ pc[p] = "write"
    /\ LET a == art[p]
           source_indicator == source_indicator_of(a.summary)
           summary == final_summary(a.summary, a.title, a.description)
           category == final_category(a.summary, a.category)
       IN  \E hashtags \in HashtagOrders(generate_hashtags(summary)) :
              LET post_content == post_of(a, hashtags)
                  stored == store_post(articles, db_seq + 1, clock, a.is_retry,
                                       a.source_name, post_content, a.url,
                                       source_indicator, category)
              IN  /\ articles' = stored
                  /\ db_seq' = IF Cardinality(stored) > Cardinality(articles)
                               THEN db_seq + 1 ELSE db_seq
                  /\ Return(p, a.is_retry, source_indicator)
    /\ UNCHANGED <<clock, api_key_set, slack_enabled, runs, run>>

\* ------------------------------------------------------------------------
\* retry_fallback_summaries: the loop
\* ------------------------------------------------------------------------
\* the arguments process_article is called with for a row of the result set
retry_args(row) ==
    [InitArt EXCEPT !.source_name = row.source_name,
                    !.title = parsed_title(row.post_content),
                    !.url = row.url,
                    !.description = parsed_description(row.post_content),
                    !.default_date = parsed_date(row.post_content),
                    !.is_retry = TRUE]

\* one iteration: the stored post is taken apart and process_article is
\* called with is_retry=True
\* whether the loop body can take the stored post apart
parses(post_content) ==
    /\ Len(post_lines(post_content)) >= 3
    /\ parsed_date(post_content) # NoDate

\* mutant of next_fallback: the loop variable is not advanced
next_fallback_first(rt) == rt.fallbacks[1]

\* for url, source_name, post_content in fallbacks: the row of this iteration
next_fallback(rt) == rt.fallbacks[rt.index + 1]

\* calls lists the URLs process_article was called with in this pass
RetryItem(p) ==
    /\ pc[p] = "retry_item"
    /\ retry[p].index < retry[p].total_to_retry
    /\ LET row == next_fallback(retry[p])
       IN  IF parses(row.post_content)
           THEN /\ art' = [art EXCEPT ![p] = retry_args(row)]
                /\ retry' = [retry EXCEPT ![p].calls = Append(@, row.url)]
                /\ pc' = [pc EXCEPT ![p] = "process"]
                /\ UNCHANGED <<run, src, enr>>
           ELSE \* IndexError or ValueError, not caught anywhere
                Exit(p, "exception")
    /\ UNCHANGED <<articles, db_seq, clock, api_key_set, slack_enabled, runs>>

\* mutant of EndRetry: main has no else, the feeds are read after the
\* re-processing loop
EndRetry_then_feeds(p) ==
    /\ pc[p] = "retry_item"
    /\ retry[p].index = retry[p].total_to_retry
    /\ run' = [run EXCEPT ![p].sources = <<RSS_FEED>>]
    /\ pc' = [pc EXCEPT ![p] = "source"]
    /\ UNCHANGED <<articles, db_seq, clock, api_key_set, slack_enabled, runs,
                   src, retry, art, enr>>

\* the loop is exhausted: the re-processing summary is printed,
\* generate_report, main returns
EndRetry(p) ==
    /\ pc[p] = "retry_item"
    /\ retry[p].index = retry[p].total_to_retry
    /\ Exit(p, "ok")
    /\ UNCHANGED <<articles, db_seq, clock, api_key_set, slack_enabled, runs>>

\* ------------------------------------------------------------------------
\* Specifications
\* ------------------------------------------------------------------------
Step(p) ==
    \/ MainSlackCrash(p)
    \/ MainNormal(p)
    \/ MainGmailExit(p)
    \/ MainRetry(p)
    \/ BeginSource(p)
    \/ SkipAlert(p)
    \/ AlertUncaught(p)
    \/ ItemStart(p)
    \/ ProcessArticle(p)
    \/ ItemRaise(p)
    \/ EndSource(p)
    \/ EndRun(p)
    \/ Scrape(p)
    \/ EnrichBegin(p)
    \/ EnrichAttempt(p)
    \/ Write(p)
    \/ RetryItem(p)
    \/ EndRetry(p)

\* invocations of the script one after another
Next == Step(1) /\ UNCHANGED <<call, ret, graph>>

Spec == Init /\ [][Next]_vars

\* two invocations of the script at the same time on one database
NextConc == (\E p \in Procs : Step(p)) /\ UNCHANGED <<call, ret, graph>>

SpecConc == Init /\ [][NextConc]_vars

\* the steps of a normal run that reads its feeds
IngestStep(p) ==
    \/ MainNormal(p)
    \/ BeginSource(p)
    \/ ItemStart(p)
    \/ ProcessArticle(p)
    \/ EndSource(p)
    \/ EndRun(p)
    \/ Scrape(p)
    \/ EnrichBegin(p)
    \/ EnrichAttempt(p)
    \/ Write(p)

\* the runs of SpecRace: no Gmail service, one feed of at most one entry
\* with the first title, and an enrichment service that is not retried
RaceInputs ==
    \A p \in Procs :
       /\ Len(run[p].sources) <= 1
       /\ \A i \in 1..Len(run[p].sources) : run[p].sources[i] = RSS_FEED
       /\ src[p].count <= 1
       /\ art[p].title \in {<<>>, <<"a">>}
       /\ enr[p].attempt = 0

InitRace == Init /\ ~slack_enabled

\* two normal runs at the same time on one database
NextRace ==
    /\ \E p \in Procs : IngestStep(p)
    /\ RaceInputs'
    /\ UNCHANGED <<call, ret, graph>>

SpecRace == InitRace /\ [][NextRace]_vars

\* the caches fetch_slack_articles builds: url -> (summary, ts); none or one
\* URL covered
SlackCaches == {<<>>, [u \in {"u1"} |-> <<<<"s", "breach">>, <<2, 9>>>>]}

\* a run whose calls of process_article are given such a cache as their
\* slack_cache argument
MainNormalCovered(p) == \E slack_cache \in SlackCaches : main_normal(p, slack_cache)

MainRetryCovered(p) == \E slack_cache \in SlackCaches : main_retry(p, slack_cache)

CoveredStep(p) ==
    \/ MainNormalCovered(p)
    \/ MainRetryCovered(p)
    \/ BeginSource(p)
    \/ ItemStart(p)
    \/ ProcessArticle(p)
    \/ EndSource(p)
    \/ EndRun(p)
    \/ Scrape(p)
    \/ EnrichBegin(p)
    \/ EnrichAttempt(p)
    \/ Write(p)
    \/ RetryItem(p)
    \/ EndRetry(p)

\* the runs of SpecCovered: no Gmail service, the first title, and an
\* enrichment service that is not retried
CoveredInputs ==
    \A p \in Procs :
       /\ \A i \in 1..Len(run[p].sources) : run[p].sources[i] = RSS_FEED
       /\ art[p].title \in {<<>>, <<"a">>}
       /\ enr[p].attempt = 0

InitCovered == Init /\ slack_enabled

\* invocations one after another, each with its cache
NextCovered ==
    /\ CoveredStep(1)
    /\ CoveredInputs'
    /\ UNCHANGED <<call, ret, graph>>

SpecCovered == InitCovered /\ [][NextCovered]_vars

\* the steps of a re-processing run
ReprocessStep(p) ==
    \/ MainRetry(p)
    \/ RetryItem(p)
    \/ ProcessArticle(p)
    \/ Scrape(p)
    \/ EnrichBegin(p)
    \/ EnrichAttempt(p)
    \/ Write(p)
    \/ EndRetry(p)

\* the table as a normal run leaves it that took the candidate (a, b) with
\* URL u1 from the feed and found the enrichment unavailable: one fallback row
FallbackTables ==
    LET a == [InitArt EXCEPT !.source_name = RSS_FEED, !.title = <<"a">>,
                             !.url = "u1", !.description = <<"b">>,
                             !.default_date = <<1, 0>>]
        summary == final_summary(a.summary, a.title, a.description)
    IN  {store_post({}, 1, 1, FALSE, a.source_name, post_of(a, hashtags), a.url,
                    source_indicator_of(a.summary), final_category(a.summary, a.category))
           : hashtags \in HashtagOrders(generate_hashtags(summary))}

\* the runs of SpecReprocessRace: an enrichment service that is not retried
ReprocessRaceInputs == \A p \in Procs : enr[p].attempt = 0

\* no invocation is running, a key is configured, and the table holds the
\* fallback row of an earlier normal run; runs counts from here
InitReprocessRace ==
    /\ articles \in FallbackTables
    /\ db_seq = 1
    /\ clock = 1
    /\ api_key_set = TRUE
    /\ slack_enabled = FALSE
    /\ runs = 0
    /\ pc = [p \in Procs |-> "idle"]
    /\ run = [p \in Procs |-> InitRun]
    /\ src = [p \in Procs |-> InitSrc]
    /\ retry = [p \in Procs |-> InitRetry]
    /\ art = [p \in Procs |-> InitArt]
    /\ enr = [p \in Procs |-> InitEnr]
    /\ call = NoCall
    /\ ret = NoCall
    /\ graph = InitGraph

\* two re-processing runs at the same time on one database
NextReprocessRace ==
    /\ \E p \in Procs : ReprocessStep(p)
    /\ ReprocessRaceInputs'
    /\ UNCHANGED <<call, ret, graph>>

SpecReprocessRace == InitReprocessRace /\ [][NextReprocessRace]_vars

\* ------------------------------------------------------------------------
\* get_actual_url, called on its own
\* ------------------------------------------------------------------------
\* a URL is its netloc and its query, the query a list of name=value pairs
Netlocs == {"www.google.com", "[::1]", "[::1"}
ParamNames == {"url", "q", "URL"}
ParamValues == {"", "https%3A%2F%2Fexample.com%2Fa", "https://example.com/b"}
GoogleUrls ==
    [netloc : Netlocs,
     query : UNION {[1..n -> ParamNames \X ParamValues] : n \in 0..MaxParams}]

\* urllib.parse.unquote
unquote(s) ==
    IF s = "https%3A%2F%2Fexample.com%2Fa" THEN "https://example.com/a" ELSE s

\* urlsplit raises ValueError("Invalid IPv6 URL") when the netloc holds one
\* of the two brackets without the other
urlparse_raises(netloc) ==
    LET open == netloc \in {"[::1]", "[::1"}
        close == netloc \in {"[::1]"}
    IN  (open /\ ~close) \/ (close /\ ~open)

\* parse_qsl: the pairs with a non-blank value, names and values unquoted
parse_qsl(query) ==
    LET kept == SelectSeq(query, LAMBDA nv : nv[2] # "")
    IN  [i \in 1..Len(kept) |-> <<unquote(kept[i][1]), unquote(kept[i][2])>>]

\* parse_qs: the dict from each name to the list of its values
parse_qs(query) ==
    LET pairs == parse_qsl(query)
    IN  [name \in {pairs[i][1] : i \in 1..Len(pairs)} |->
            LET own == SelectSeq(pairs, LAMBDA nv : nv[1] = name)
            IN  [i \in 1..Len(own) |-> own[i][2]]]

\* what the call does: it returns a destination, returns its argument
\* (KeyError caught), or lets the ValueError of urlparse go
get_actual_url(google_url) ==
    IF urlparse_raises(google_url.netloc)
    THEN [kind |-> "ValueError", dest |-> ""]
    ELSE LET qs == parse_qs(google_url.query)
         IN  IF "url" \in DOMAIN qs
             THEN [kind |-> "dest", dest |-> qs["url"][1]]
             ELSE [kind |-> "input", dest |-> ""]

\* the invocations are idle while a helper is called on its own
Idle ==
    /\ articles = {}
    /\ db_seq = 0
    /\ clock = 0
    /\ api_key_set = FALSE
    /\ slack_enabled = FALSE
    /\ runs = 0
    /\ pc = [p \in Procs |-> "idle"]
    /\ run = [p \in Procs |-> InitRun]
    /\ src = [p \in Procs |-> InitSrc]
    /\ retry = [p \in Procs |-> InitRetry]
    /\ art = [p \in Procs |-> InitArt]
    /\ enr = [p \in Procs |-> InitEnr]

PendingUrl == [kind |-> "pending", dest |-> ""]

InitUrl == Idle /\ call \in GoogleUrls /\ ret = PendingUrl /\ graph = InitGraph

GetActualUrl ==
    /\ ret = PendingUrl
    /\ ret' = get_actual_url(call)
    /\ UNCHANGED <<articles, db_seq, clock, api_key_set, slack_enabled, runs,
                   pc, run, src, retry, art, enr, call, graph>>

NextUrl == GetActualUrl

SpecUrl == InitUrl /\ [][NextUrl]_vars

\* ------------------------------------------------------------------------
\* parse_google_alert, called on its own
\* ------------------------------------------------------------------------
PendingDigest == [kind |-> "pending", count |-> 0]

InitDigest == Idle /\ call \in Digests /\ ret = PendingDigest /\ graph = InitGraph

ParseGoogleAlert ==
    /\ ret = PendingDigest
    /\ ret' = parse_google_alert(call)
    /\ UNCHANGED <<articles, db_seq, clock, api_key_set, slack_enabled, runs,
                   pc, run, src, retry, art, enr, call, graph>>

NextDigest == ParseGoogleAlert

SpecDigest == InitDigest /\ [][NextDigest]_vars

\* ------------------------------------------------------------------------
\* generate_tags_and_emojis, called on its own
\* ------------------------------------------------------------------------
TagTokens == {"word", "Ransomware", "malware", "email", "AI-powered",
              "Samsung Android", "Microsoft", "hackers"}
TagTexts == UNION {[1..n -> TagTokens] : n \in 0..MaxTokens}

PendingTags == [hashtags |-> <<>>, emojis |-> <<>>]

InitTags == Idle /\ call \in TagTexts /\ ret = PendingTags /\ graph = InitGraph

\* return list(hashtags), emojis
GenerateTagsAndEmojis ==
    /\ ret = PendingTags
    /\ \E hashtags \in HashtagOrders(generate_hashtags(call)) :
          ret' = [hashtags |-> hashtags, emojis |-> generate_emojis(call)]
    /\ UNCHANGED <<articles, db_seq, clock, api_key_set, slack_enabled, runs,
                   pc, run, src, retry, art, enr, call, graph>>

NextTags == GenerateTagsAndEmojis

SpecTags == InitTags /\ [][NextTags]_vars

\* ------------------------------------------------------------------------
\* The fallback summary, written by process_article and taken apart by
\* retry_fallback_summaries
\* ------------------------------------------------------------------------
FieldTokens == {"a", "SP", "SEP", "DOTS", "malware"}
FieldTexts == UNION {[1..n -> FieldTokens] : n \in 0..MaxTokens}

PendingFields == [title |-> <<"pending">>, description |-> <<"pending">>]

InitFields ==
    /\ Idle
    /\ call \in [title : FieldTexts, description : FieldTexts]
    /\ ret = PendingFields
    /\ graph = InitGraph

\* the posts process_article stores for a candidate whose enrichment is
\* unavailable
fallback_posts(title, description) ==
    LET a == [InitArt EXCEPT !.source_name = RSS_FEED, !.title = title,
                             !.url = "u1", !.description = description,
                             !.default_date = <<1, 0>>]
        summary == final_summary(a.summary, a.title, a.description)
    IN  {post_of(a, hashtags) : hashtags \in HashtagOrders(generate_hashtags(summary))}

\* a fallback record is written from (title, description) and the
\* re-processing loop reads title and description back from it
ReconstructFields ==
    /\ ret = PendingFields
    /\ \E post_content \in fallback_posts(call.title, call.description) :
          LET row == [url |-> "u1", source_name |-> RSS_FEED, post_content |-> post_content]
          IN  ret' = [title |-> retry_args(row).title,
                      description |-> retry_args(row).description]
    /\ UNCHANGED <<articles, db_seq, clock, api_key_set, slack_enabled, runs,
                   pc, run, src, retry, art, enr, call, graph>>

NextFields == ReconstructFields

SpecFields == InitFields /\ [][NextFields]_vars

\* ------------------------------------------------------------------------
\* Graph Store: entities and relationships written with an article
\* ------------------------------------------------------------------------
\* the (name, type) pairs an enrichment result can list
EntityKeys == {<<"APT28", "ThreatActor">>, <<"APT28", "Malware">>,
               <<"Emotet", "Malware">>}

\* mutant of upsert_entity: the row is inserted without the lookup
upsert_entity_no_lookup(g, key) ==
    [g EXCEPT !.entities = @ \cup {[id |-> g.ent_seq + 1, name |-> key[1], type |-> key[2]]},
              !.ent_seq = @ + 1]

\* upsert: look up (name, type) first, insert only if absent
upsert_entity(g, key) ==
    IF \E e \in g.entities : e.name = key[1] /\ e.type = key[2]
    THEN g
    ELSE [g EXCEPT !.entities = @ \cup {[id |-> g.ent_seq + 1, name |-> key[1],
                                         type |-> key[2]]},
                   !.ent_seq = @ + 1]

\* the id of the entity row of a key (the first found)
entity_id(g, key) ==
    LET e == CHOOSE e \in g.entities : e.name = key[1] /\ e.type = key[2]
    IN  e.id

\* link the article to the entity of key, unless the pair is linked
link(g, article_id, key) ==
    IF \E r \in g.relationships : /\ r.article_id = article_id
                                  /\ r.entity_id = entity_id(g, key)
    THEN g
    ELSE [g EXCEPT !.relationships = @ \cup {[id |-> g.rel_seq + 1,
                                              article_id |-> article_id,
                                              entity_id |-> entity_id(g, key)]},
                   !.rel_seq = @ + 1]

\* upsert and link each listed entity in turn
RECURSIVE write_entities(_, _, _)
write_entities(g, article_id, keys) ==
    IF keys = <<>> THEN g
    ELSE write_entities(link(upsert_entity(g, Head(keys)), article_id, Head(keys)),
                        article_id, Tail(keys))

\* the relationships of the article are deleted before they are re-inserted
unlink(g, article_id) ==
    [g EXCEPT !.relationships = {r \in @ : r.article_id # article_id}]

\* the entity lists of an enrichment result: every order of every subset
EntityLists ==
    UNION {{l \in [1..n -> EntityKeys] : \A i, j \in 1..n : l[i] = l[j] => i = j} :
           n \in 0..Cardinality(EntityKeys)}

InitEntities == Idle /\ call = NoCall /\ ret = NoCall /\ graph = InitGraph

\* an article is inserted or updated with the entities of its enrichment
WriteArticleEntities ==
    /\ graph.writes < MaxWrites
    /\ \E article_id \in ArticleIds, keys \in EntityLists :
          graph' = [write_entities(unlink(graph, article_id), article_id, keys)
                       EXCEPT !.latest[article_id] = {keys[i] : i \in 1..Len(keys)},
                              !.writes = @ + 1]
    /\ UNCHANGED <<articles, db_seq, clock, api_key_set, slack_enabled, runs,
                   pc, run, src, retry, art, enr, call, ret>>

NextEntities == WriteArticleEntities

SpecEntities == InitEntities /\ [][NextEntities]_vars

\* ------------------------------------------------------------------------
\* Properties
\* ------------------------------------------------------------------------
is_prefix(a, b) == Len(a) <= Len(b) /\ SubSeq(b, 1, Len(a)) = a

stored_urls(arts) == {r.url : r \in arts}

\* process p takes the step that ends process_article's last part
Writes(p) == pc[p] = "write" /\ pc'[p] # "write"

\* the enrichment call returned unavailable (or a result without summary)
unavailable(summary) == summary = None \/ summary = <<>>

\* C1: in every reachable state of any sequence of ingestion and
\* reprocessing passes, the articles table holds at most one row per URL.
C1_OneRowPerUrl ==
    \A r1 \in articles : \A r2 \in articles : r1.url = r2.url => r1 = r2

\* both URLs are stored and a reprocessing pass has rewritten a row
C1_Witness ==
    /\ Cardinality(articles) = 2
    /\ \E p \in Procs : run[p].mode = "retry" /\ retry[p].index > 0

\* C2: ingestion is idempotent: a candidate whose URL is already stored
\* leaves every row as it was, and increments the skipped counter only.
C2_IdempotentIngestion ==
    [][\A p \in Procs :
          (/\ pc[p] = "process"
           /\ pc'[p] # "process"
           /\ ~art[p].is_retry
           /\ \E r \in articles : r.url = art[p].url)
          => /\ articles' = articles
             /\ pc'[p] = "item"
             /\ src'[p].result = "skipped"
             /\ src'[p].skipped = src[p].skipped + 1
             /\ src'[p].added = src[p].added
             /\ src'[p].failed = src[p].failed]_vars

\* a second pass has met a stored URL and skipped it
C2_Witness ==
    /\ runs = 2
    /\ \E p \in Procs : /\ run[p].mode = "normal"
                        /\ src[p].result = "skipped"
                        /\ src[p].skipped = 1
                        /\ articles # {}

\* C3: when enrichment is unavailable for an item that is not stored yet,
\* the item is inserted with source_indicator fallback, category Unknown and
\* a summary composed of its stripped title and description.
C3_FallbackPersisted ==
    [][\A p \in Procs :
          (/\ Writes(p)
           /\ ~art[p].is_retry
           /\ unavailable(art[p].summary)
           /\ art[p].url \notin stored_urls(articles))
          => \E r \in articles' \ articles :
                /\ r.url = art[p].url
                /\ r.source_name = art[p].source_name
                /\ r.source_indicator = "fallback"
                /\ r.main_topic = <<"Unknown">>
                /\ post_lines(r.post_content)[1] = <<"CATEGORY: ", "Unknown">>
                /\ is_prefix(remove(strip(art[p].title) \o <<"SEP">>
                                      \o strip(art[p].description), "DOTS"),
                             post_lines(r.post_content)[3])]_vars

\* an ingestion pass has just stored an item as fallback
C3_Witness ==
    \E p \in Procs : /\ run[p].mode = "normal"
                     /\ src[p].result = "fallback"
                     /\ \E r \in articles : r.source_indicator = "fallback"

\* C4: when the reprocessor's enrichment call succeeds for a stored fallback
\* record, the record becomes ai, its post and category are those of the
\* enrichment result, and its url (and id) stay as they were.
C4_HealOnSuccess ==
    [][\A p \in Procs :
          (/\ Writes(p)
           /\ art[p].is_retry
           /\ ~unavailable(art[p].summary)
           /\ \E r \in articles : r.url = art[p].url /\ r.source_indicator = "fallback")
          => /\ \E r \in articles : \E r2 \in articles' :
                   /\ r.url = art[p].url
                   /\ r2.url = r.url
                   /\ r2.id = r.id
                   /\ r2.source_indicator = "ai"
                   /\ r2.main_topic = art[p].category
                   /\ post_lines(r2.post_content)[1] = <<"CATEGORY: ">> \o art[p].category
                   /\ is_prefix(art[p].summary, post_lines(r2.post_content)[3])
             /\ stored_urls(articles') = stored_urls(articles)
             /\ Cardinality(articles') = Cardinality(articles)]_vars

\* a reprocessing pass has healed a record
C4_Witness ==
    \E p \in Procs : /\ retry[p].result = "ai"
                     /\ retry[p].successful_heals > 0
                     /\ \E r \in articles : r.source_indicator = "ai"

\* C5: when the reprocessor attempts a fallback record and enrichment is
\* unavailable again, the stored record is left untouched in every field.
C5_UntouchedOnFailure ==
    [][\A p \in Procs :
          (Writes(p) /\ art[p].is_retry /\ unavailable(art[p].summary))
          => articles' = articles]_vars

\* the rows a reprocessing attempt can leave in place of fallback row r when
\* the page yields publish_date and enrichment is unavailable
after_failed_retry(r, publish_date) ==
    LET a == [retry_args([url |-> r.url, source_name |-> r.source_name,
                          post_content |-> r.post_content])
                 EXCEPT !.publish_date = publish_date]
        summary == final_summary(None, a.title, a.description)
    IN  UNION {update_post_in_db({r}, r.url, post_of(a, hashtags),
                                 source_indicator_of(None), final_category(None, None))
                 : hashtags \in HashtagOrders(generate_hashtags(summary))}

\* C6: reprocessing is idempotent: a second pass with the same outcomes
\* leaves every record as the first pass left it.
C6_ReprocessIdempotent ==
    \A r \in articles :
       (r.source_indicator = "fallback" /\ parses(r.post_content))
       => \A publish_date \in PublishDates \cup {NoDate} :
             \A r1 \in after_failed_retry(r, publish_date) :
                (r1.source_indicator = "fallback" /\ parses(r1.post_content))
                => after_failed_retry(r1, publish_date) = {r1}

\* C7: a record that is ai or human-verified never becomes fallback again;
\* source_indicator only changes away from fallback, and only when the
\* reprocessor updates that record; no row disappears.
C7_NoBackwardTransition ==
    [][\A r \in articles :
          /\ r.url \in stored_urls(articles')
          /\ \A r2 \in articles' :
                (r2.url = r.url /\ r2.source_indicator # r.source_indicator)
                => /\ r.source_indicator = "fallback"
                   /\ \E p \in Procs : /\ run[p].mode = "retry"
                                       /\ Writes(p)
                                       /\ art[p].is_retry
                                       /\ art[p].url = r.url]_vars

\* a reprocessing pass is about to write while an ai record is stored
C7_Witness ==
    \E p \in Procs : /\ run[p].mode = "retry"
                     /\ pc[p] = "write"
                     /\ \E r \in articles : r.source_indicator = "ai"

\* C8: a reprocessing pass with a source filter attempts and modifies only
\* fallback records of that source; every other record keeps every field.
C8_FilteredReprocessing ==
    [][\A p \in Procs :
          (run[p].mode = "retry" /\ retry[p].source_to_retry # "")
          => /\ \A r \in articles :
                   (\/ r.source_indicator # "fallback"
                    \/ r.source_name # retry[p].source_to_retry)
                   => r \in articles'
             /\ Cardinality(articles') = Cardinality(articles)
             /\ (pc'[p] = "process" /\ pc[p] # "process")
                => \E r \in articles : /\ r.url = art'[p].url
                                       /\ art'[p].is_retry
                                       /\ r.source_indicator = "fallback"
                                       /\ r.source_name = retry[p].source_to_retry]_vars

\* a filtered pass has attempted a record while a fallback record of
\* another source is stored
C8_Witness ==
    \E p \in Procs : /\ run[p].mode = "retry"
                     /\ retry[p].source_to_retry # ""
                     /\ retry[p].index > 0
                     /\ \E r \in articles : /\ r.source_indicator = "fallback"
                                            /\ r.source_name # retry[p].source_to_retry

short_text(text) == text = NoText \/ text[2] < 50

\* C10: no request is sent to the enrichment service for a text that is
\* absent or whose stripped length is below 50; the call returns
\* unavailable at once and the item is stored as fallback.
C10_MinLengthGuard ==
    /\ [](\A p \in Procs :
             (pc[p] = "attempt" \/ enr[p].sent > 0) => ~short_text(art[p].article_text))
    /\ [][\A p \in Procs :
             /\ (pc[p] = "enrich" /\ pc'[p] # "enrich" /\ short_text(art[p].article_text))
                => /\ pc'[p] = "write"
                   /\ art'[p].summary = None
                   /\ enr'[p].sent = 0
             /\ (Writes(p) /\ short_text(art[p].article_text))
                => \E r \in articles' : /\ r.url = art[p].url
                                        /\ r.source_indicator = "fallback"]_vars

\* with a key configured, a page of 49 characters between whitespace went
\* from the guard straight to the fallback post
C10_Witness ==
    \E p \in Procs : /\ api_key_set
                     /\ pc[p] = "write"
                     /\ art[p].article_text = <<2, 49, 0>>
                     /\ art[p].summary = None

\* process p's invocation ended by an error, not by main returning
aborted(p) == pc'[p] = "idle" /\ run'[p].exit \notin {"none", "ok"}

\* C11: whatever the outcome of an attempt (the request raises, a retryable
\* status, another status, 200 with a body that does not parse, 200 without
\* candidates), the enrichment call goes on or returns, it never raises;
\* what it returns after a failure is unavailable, the item is then stored
\* and control is back in the loop of the pass.
C11_EnrichmentNeverRaises ==
    [][\A p \in Procs :
          /\ pc[p] = "attempt"
             => /\ pc'[p] \in {"attempt", "write"}
                /\ run'[p] = run[p]
                /\ src'[p] = src[p]
                /\ retry'[p] = retry[p]
                /\ (pc'[p] = "write" /\ enr'[p].status_code # 200)
                   => art'[p].summary = None
          /\ (Writes(p) /\ unavailable(art[p].summary))
             => /\ art[p].url \in stored_urls(articles')
                /\ pc'[p] \in {"item", "retry_item"}]_vars

\* the request of the last attempt raised and the call returned unavailable
C11_Witness ==
    \E p \in Procs : /\ api_key_set
                     /\ pc[p] = "write"
                     /\ ~short_text(art[p].article_text)
                     /\ enr[p].status_code = 0
                     /\ art[p].summary = None

\* C12: one enrichment call sends at most max_retries requests: an attempt
\* is only begun with fewer than max_retries requests sent, every attempt
\* that does not return counts one more, and the attempt numbered
\* max_retries always returns, unavailable unless the response was a 200.
C12_BoundedAttempts ==
    /\ [](\A p \in Procs :
             pc[p] = "attempt" => /\ enr[p].attempt < max_retries
                                  /\ enr[p].sent = enr[p].attempt)
    /\ [][\A p \in Procs :
             pc[p] = "attempt"
             => /\ pc'[p] = "attempt"
                   => /\ enr'[p].attempt = enr[p].attempt + 1
                      /\ enr'[p].sent = enr[p].sent + 1
                /\ enr[p].attempt = max_retries - 1
                   => /\ pc'[p] = "write"
                      /\ enr'[p].status_code # 200 => art'[p].summary = None]_vars

\* the third response in a row had a retryable status and the call returned
C12_Witness ==
    \E p \in Procs : /\ pc[p] = "write"
                     /\ enr[p].status_code \in RETRYABLE_STATUS
                     /\ art[p].summary = None

\* C13: when the enrichment call finds that no key is configured, the
\* invocation is aborted.
C13_AbortOnMissingCredential ==
    [][\A p \in Procs :
          (/\ pc[p] = "enrich"
           /\ pc'[p] # "enrich"
           /\ ~short_text(art[p].article_text)
           /\ ~api_key_set)
          => aborted(p)]_vars

\* C14: a response whose status is neither 200 nor retryable aborts the
\* invocation.
C14_NonRetryableIsFatal ==
    [][\A p \in Procs :
          (/\ pc[p] = "attempt"
           /\ pc'[p] # "attempt"
           /\ enr'[p].status_code \notin ({0, 200} \cup RETRYABLE_STATUS))
          => aborted(p)]_vars

\* C15: in an ingestion pass the text given to the enrichment call is never
\* absent: when the primary tier failed it is a text made of title and
\* description.
C15_SynthesizedText ==
    \A p \in Procs :
       (pc[p] = "enrich" /\ art[p].tier = "curl_cffi")
       => art[p].article_text # NoText

\* C16: in an ingestion pass no step of extraction or enrichment touches
\* the loop of the source; an item whose enrichment is unavailable is
\* stored as fallback, counted as failed, and the loop goes on with the
\* candidates that remain.
C16_ItemFailureContained ==
    [][\A p \in Procs :
          /\ (pc[p] \in {"scrape", "enrich", "attempt"} /\ ~art[p].is_retry)
             => /\ pc'[p] \in {"enrich", "attempt", "write"}
                /\ src'[p] = src[p]
                /\ run'[p] = run[p]
          /\ (Writes(p) /\ ~art[p].is_retry /\ unavailable(art[p].summary))
             => /\ \E r \in articles' : /\ r.url = art[p].url
                                        /\ r.source_indicator = "fallback"
                /\ pc'[p] = "item"
                /\ src'[p].index = src[p].index + 1
                /\ src'[p].count = src[p].count
                /\ src'[p].failed = src[p].failed + 1
                /\ run'[p] = run[p]
          /\ (pc[p] = "item" /\ src[p].index < src[p].count /\ pc'[p] # "item")
             => \/ pc'[p] = "process" /\ art'[p].source_name = src[p].source_name
                \/ src'[p].result = "exception"]_vars

\* two candidates of one source were both degraded to fallback
C16_Witness ==
    \E p \in Procs : /\ pc[p] = "item"
                     /\ src[p].index = 2
                     /\ src[p].failed = 2

\* C17: while sources remain, a failure in one of them does not end the
\* invocation.
C17_SourceFailureContained ==
    [][\A p \in Procs :
          (pc[p] = "source" /\ run[p].sources # <<>>) => pc'[p] # "idle"]_vars

\* C18: the Selenium tier is only ever called for a record being
\* re-processed and the curl_cffi tier only for a candidate of an ingestion
\* pass.
C18_HeavyTierOnlyOnRetry ==
    \A p \in Procs :
       /\ art[p].tier = "selenium" => (run[p].mode = "retry" /\ art[p].is_retry)
       /\ art[p].tier = "curl_cffi" => (run[p].mode = "normal" /\ ~art[p].is_retry)
       /\ pc[p] \in {"enrich", "attempt", "write"}
          => art[p].tier = IF run[p].mode = "retry" THEN "selenium" ELSE "curl_cffi"

\* a record under re-processing was extracted with Selenium
C18_Witness ==
    \E p \in Procs : /\ pc[p] = "enrich"
                     /\ run[p].mode = "retry"
                     /\ art[p].tier = "selenium"

\* the values the query of a URL carries under the name url
url_params(google_url) ==
    SelectSeq(google_url.query, LAMBDA nv : nv[1] = "url" /\ nv[2] # "")

\* C19: get_actual_url returns the decoded destination of the query
\* parameter url when its argument has one, returns its argument when it
\* has none, and fails for no argument.
C19_Canonicalizer ==
    ret # PendingUrl
    => /\ ret.kind # "ValueError"
       /\ url_params(call) # <<>>
          => (ret.kind = "dest" /\ ret.dest = unquote(url_params(call)[1][2]))
       /\ url_params(call) = <<>> => ret.kind = "input"

\* the elements of a list
elements(list) == {list[i] : i \in 1..Len(list)}

no_duplicates(list) == Cardinality(elements(list)) = Len(list)

\* the entries of keyword_map whose keyword occurs in the lower-cased text
matched(text) ==
    {k \in 1..Len(keyword_map) :
        \E i \in 1..Len(text) : keyword_map[k].keyword \in substrings(lower(text[i]))}

\* C20: the hashtags returned are #Cybersecurity and the tags of the
\* matched keywords, each once; the emojis returned are the emojis of the
\* matched keywords, each once, and the pair siren, shield exactly when no
\* keyword matched.
C20_TagsAndEmojis ==
    ret # PendingTags
    => /\ elements(ret.hashtags) =
             {"#Cybersecurity"} \cup {keyword_map[k].tag : k \in matched(call)}
       /\ no_duplicates(ret.hashtags)
       /\ no_duplicates(ret.emojis)
       /\ matched(call) # {}
          => elements(ret.emojis) = {keyword_map[k].emoji : k \in matched(call)}
       /\ (ret.emojis = <<"E_siren", "E_shield">>) <=> (matched(call) = {})

\* two keywords with the same emoji, and one written with a capital
C20_Witness ==
    /\ call = <<"hackers", "Microsoft">>
    /\ ret.emojis = <<"E_laptop">>
    /\ elements(ret.hashtags) = {"#Cybersecurity", "#Hacking", "#Microsoft"}

\* C21: generate_tags_and_emojis is only called for an item whose
\* enrichment was unavailable: the post of a record with an AI summary
\* carries none of its output.
C21_GeneratorOnlyOnFallback ==
    \A r \in articles :
       r.source_indicator = "ai"
       => /\ "#Cybersecurity" \notin elements(r.post_content)
          /\ "E_siren" \notin elements(r.post_content)

\* the stored row of a URL
row_of(url) == CHOOSE r \in articles : r.url = url

\* the URLs of the records the re-processing loop of p has been through
attempted(p) == {retry[p].fallbacks[i].url : i \in 1..retry[p].index}

\* C22: in the re-processing loop, and so when its summary is printed, the
\* count of healed records is the number of attempted records that are now
\* ai, and attempted minus healed is the number that are still fallback.
C22_HealCounts ==
    \A p \in Procs :
       pc[p] = "retry_item"
       => /\ attempted(p) \subseteq stored_urls(articles)
          /\ retry[p].successful_heals =
                Cardinality({u \in attempted(p) : row_of(u).source_indicator = "ai"})
          /\ retry[p].index - retry[p].successful_heals =
                Cardinality({u \in attempted(p) : row_of(u).source_indicator = "fallback"})

\* a pass over two records ends with one healed and one still fallback
C22_Witness ==
    \E p \in Procs : /\ pc[p] = "retry_item"
                     /\ retry[p].total_to_retry = 2
                     /\ retry[p].index = 2
                     /\ retry[p].successful_heals = 1

\* C23: when two normal runs get the same new URL past their existence
\* checks, the table still holds one row per URL; the INSERT that comes
\* second changes no row, and the run that issued it goes on with its loop.
C23_ConcurrentInsertOnce ==
    /\ [](\A r1, r2 \in articles : r1.url = r2.url => r1.id = r2.id)
    /\ [][\A p \in Procs :
             (Writes(p) /\ ~art[p].is_retry /\ art[p].url \in stored_urls(articles))
             => /\ articles' = articles
                /\ pc'[p] = "item"
                /\ run'[p] = run[p]]_vars

\* both runs have taken their candidate through to the INSERT, and one row
\* is stored
C23_Witness ==
    /\ Cardinality(articles) = 1
    /\ \A p \in Procs : /\ pc[p] = "item"
                        /\ src[p].index = 1
                        /\ src[p].result \in {"ai", "fallback"}

\* C24: the category of every stored article is one of the categories of
\* the prompt or Unknown.
C24_CategoryInTaxonomy ==
    \A r \in articles : r.main_topic \in categories \cup {<<"Unknown">>}

\* C25: no step changes the id, url, source_name or created_at of a stored
\* row or removes a row, and the UPDATE of a re-processed record leaves
\* every row with another url as it was.
C25_ImmutableColumns ==
    [][/\ \A r \in articles :
             \E r2 \in articles' : /\ r2.id = r.id
                                   /\ r2.url = r.url
                                   /\ r2.source_name = r.source_name
                                   /\ r2.created_at = r.created_at
       /\ \A p \in Procs :
             (Writes(p) /\ art[p].is_retry)
             => /\ Cardinality(articles') = Cardinality(articles)
                /\ \A r \in articles : r.url # art[p].url => r \in articles']_vars

\* a row created in an earlier invocation has been updated to ai
C25_Witness ==
    \E p \in Procs, r \in articles :
       /\ run[p].mode = "retry"
       /\ retry[p].result = "ai"
       /\ r.source_indicator = "ai"
       /\ r.created_at < clock

\* C27: a candidate of an ingestion pass whose URL is stored goes from the
\* existence check straight back to the loop: no row and no sequence
\* number changes, no extraction tier is called and no request is sent.
C27_DuplicateNoSideEffects ==
    [][\A p \in Procs :
          (/\ pc[p] = "process"
           /\ pc'[p] # "process"
           /\ ~art[p].is_retry
           /\ art[p].url \in stored_urls(articles))
          => /\ articles' = articles
             /\ db_seq' = db_seq
             /\ pc'[p] = "item"
             /\ art[p].tier = "none"
             /\ art'[p].tier = "none"
             /\ enr'[p].sent = 0]_vars

\* both candidates of a source were duplicates
C27_Witness ==
    \E p \in Procs : /\ pc[p] = "item"
                     /\ src[p].index = 2
                     /\ src[p].skipped = 2

\* C28: a 200 response whose text does not parse is followed by another
\* attempt while attempts remain, and by the return of unavailable on the
\* last attempt only.
C28_ParseFailureRetried ==
    [][\A p \in Procs :
          (pc[p] = "attempt" /\ enr'[p].outcome = "unparseable"
                             /\ enr'[p].sent = enr[p].sent + 1)
          => IF enr[p].attempt < max_retries - 1
             THEN /\ pc'[p] = "attempt"
                  /\ enr'[p].attempt = enr[p].attempt + 1
             ELSE /\ pc'[p] = "write"
                  /\ art'[p].summary = None]_vars

\* two responses in a row did not parse and a third attempt is due
C28_Witness ==
    \E p \in Procs : /\ pc[p] = "attempt"
                     /\ enr[p].outcome = "unparseable"
                     /\ enr[p].status_code = 200
                     /\ enr[p].attempt = 2

\* an attempt of p has just ended with the given outcome
ended(p, kinds) ==
    /\ pc[p] = "attempt"
    /\ enr'[p].sent = enr[p].sent + 1
    /\ enr'[p].outcome \in kinds

\* C29: another attempt follows only an exception or a retryable status;
\* a 200 without candidates and any other status end the call at once,
\* unavailable.
C29_RetryOnlyTransient ==
    [][\A p \in Procs :
          /\ (pc[p] = "attempt" /\ pc'[p] = "attempt")
             => \/ ended(p, {"exception", "unparseable"})
                \/ ended(p, {"status"}) /\ enr'[p].status_code \in RETRYABLE_STATUS
          /\ (\/ ended(p, {"no_candidates"})
              \/ ended(p, {"status"}) /\ enr'[p].status_code \notin RETRYABLE_STATUS)
             => /\ pc'[p] = "write"
                /\ art'[p].summary = None]_vars

\* the second request was answered 429 and the call returned
C29_Witness ==
    \E p \in Procs : /\ pc[p] = "write"
                     /\ enr[p].outcome = "status"
                     /\ enr[p].status_code = 429
                     /\ enr[p].sent = 2

\* C30: every request follows a rate-limit sleep taken since the request
\* before it: no request is undelayed, and there are as many sleeps as
\* requests.
C30_RateLimitBeforeRequest ==
    /\ [](\A p \in Procs : enr[p].undelayed = 0 /\ enr[p].delays = enr[p].sent)
    /\ [][\A p \in Procs :
             enr'[p].sent = enr[p].sent + 1
             => /\ enr'[p].delays = enr[p].delays + 1
                /\ ~enr'[p].slept]_vars

\* three requests were sent, each after its sleep
C30_Witness ==
    \E p \in Procs : /\ pc[p] = "write"
                     /\ enr[p].sent = 3
                     /\ enr[p].delays = 3

\* the entity rows of a key, and the relationship rows of an article and key
entity_rows(key) == {e \in graph.entities : e.name = key[1] /\ e.type = key[2]}

relationship_rows(article_id, key) ==
    {r \in graph.relationships :
        /\ r.article_id = article_id
        /\ \E e \in entity_rows(key) : r.entity_id = e.id}

\* C26: there is at most one entity row per (name, type); for two articles
\* whose latest enrichment both list an entity there is one entity row and
\* one relationship row for each of the two articles.
C26_EntityUpsertUnique ==
    /\ \A key \in EntityKeys : Cardinality(entity_rows(key)) <= 1
    /\ \A a1, a2 \in ArticleIds, key \in EntityKeys :
          (a1 # a2 /\ key \in graph.latest[a1] /\ key \in graph.latest[a2])
          => /\ Cardinality(entity_rows(key)) = 1
             /\ Cardinality(relationship_rows(a1, key)) = 1
             /\ Cardinality(relationship_rows(a2, key)) = 1
             /\ relationship_rows(a1, key) # relationship_rows(a2, key)

\* two articles that both mention the threat actor APT28 were written
C26_Witness ==
    /\ graph.latest[1] = {<<"APT28", "ThreatActor">>}
    /\ graph.latest[2] = {<<"APT28", "ThreatActor">>}
    /\ Cardinality(graph.entities) = 1
    /\ Cardinality(graph.relationships) = 2

moves(p) ==
    <<pc[p], run[p], src[p], retry[p], art[p], enr[p]>>
       # <<pc'[p], run'[p], src'[p], retry'[p], art'[p], enr'[p]>>

\* C32: no step of a normal run, its start included, changes or removes a
\* row that is stored: every stored row is still there after the step; a
\* step that changes or removes a stored row is the UPDATE of a record
\* under re-processing.
C32_IngestionOnlyCreates ==
    [][/\ \A p \in Procs :
             (moves(p) /\ (run[p].mode = "normal" \/ run'[p].mode = "normal"))
             => articles \subseteq articles'
       /\ ~(articles \subseteq articles')
          => \E p \in Procs : /\ Writes(p)
                              /\ art[p].is_retry
                              /\ run[p].mode = "retry"]_vars

\* the second invocation is a normal run that has stored a new item beside
\* a row of the first invocation
C32_Witness ==
    \E p \in Procs : /\ runs = 2
                     /\ run[p].mode = "normal"
                     /\ src[p].result \in {"ai", "fallback"}
                     /\ \E r1, r2 \in articles : /\ r1.created_at < clock
                                                 /\ r2.created_at = clock

\* the item p is about to look at is covered by the cache and is not a
\* duplicate
covered(p) ==
    /\ pc[p] = "process"
    /\ pc'[p] # "process"
    /\ art[p].url \in DOMAIN run[p].slack_cache
    /\ (art[p].is_retry \/ art[p].url \notin stored_urls(articles))

malformed(d) ==
    \/ d.date = "missing"
    \/ ~d.multipart
    \/ d.html = "none"
    \/ d.script \in {"none", "unparseable", "empty_object"}

\* C34: a digest without HTML part, without markup block, with JSON that
\* does not parse or is empty, or without Date header makes
\* parse_google_alert come back with no candidate: it does not raise.
C34_MalformedDigestDegrades ==
    (ret # PendingDigest /\ malformed(call))
    => /\ ret.kind # "raise"
       /\ ret.count = 0

\* C35: an invocation is a re-processing run or a normal run, never both.
\* A re-processing run has no source to read and no candidate loop, every
\* call of process_article in it has is_retry set, and none of its steps
\* adds a row or takes a row id.  A normal run has no re-processing loop,
\* calls process_article without is_retry, changes no stored row and calls
\* no extraction tier for a URL that is stored.
C35_TriggersExclusive ==
    /\ [](\A p \in Procs :
             /\ run[p].mode = "retry"
                => /\ run[p].sources = <<>>
                   /\ src[p] = InitSrc
                   /\ pc[p] \in {"retry_item", "process", "scrape", "enrich", "attempt", "write"}
                   /\ pc[p] # "retry_item" => art[p].is_retry
             /\ run[p].mode = "normal"
                => /\ retry[p] = InitRetry
                   /\ ~art[p].is_retry
                   /\ pc[p] \in {"source", "item", "process", "scrape", "enrich", "attempt", "write"})
    /\ [][\A p \in Procs :
             moves(p)
             => /\ (run[p].mode = "retry" \/ run'[p].mode = "retry")
                   => /\ stored_urls(articles') = stored_urls(articles)
                      /\ Cardinality(articles') = Cardinality(articles)
                      /\ db_seq' = db_seq
                /\ run[p].mode = "normal"
                   => /\ articles \subseteq articles'
                      /\ pc[p] = "scrape" => art[p].url \notin stored_urls(articles)]_vars

\* a re-processing run over the one stored record has finished its loop and
\* the record is still the only row
C35_Witness ==
    \E p \in Procs : /\ run[p].mode = "retry"
                     /\ pc[p] = "retry_item"
                     /\ retry[p].total_to_retry = 1
                     /\ retry[p].index = 1
                     /\ Cardinality(articles) = 1
                     /\ db_seq = 1

\* the URLs of the rows the fallback query of a pass selects
selected(arts, source_to_retry) ==
    {r.url : r \in {x \in arts : /\ x.source_indicator = "fallback"
                                 /\ source_to_retry # "" => x.source_name = source_to_retry}}

\* C36: no step of a re-processing pass adds or removes a row: the stored
\* URLs and the number of rows stay as they are.  The pass goes through the
\* rows its query selected when it began, in order, calling process_article
\* once for each, and it ends when it has called it for all of them, whether
\* they were healed or not.
C36_ReprocessAttemptsOnce ==
    /\ [](\A p \in Procs :
             run[p].mode = "retry"
             => /\ no_duplicates(retry[p].calls)
                /\ Len(retry[p].calls) <= retry[p].total_to_retry
                /\ \A i \in 1..Len(retry[p].calls) :
                      retry[p].calls[i] = retry[p].fallbacks[i].url
                /\ Len(retry[p].calls) =
                      IF pc[p] = "retry_item" THEN retry[p].index ELSE retry[p].index + 1)
    /\ [][\A p \in Procs :
             (moves(p) /\ (run[p].mode = "retry" \/ run'[p].mode = "retry"))
             => /\ stored_urls(articles') = stored_urls(articles)
                /\ Cardinality(articles') = Cardinality(articles)
                /\ pc[p] = "idle"
                   => /\ elements([i \in 1..Len(retry'[p].fallbacks) |-> retry'[p].fallbacks[i].url])
                           = selected(articles, retry'[p].source_to_retry)
                      /\ retry'[p].total_to_retry = Cardinality(selected(articles, retry'[p].source_to_retry))
                /\ pc[p] # "idle" => retry'[p].fallbacks = retry[p].fallbacks \/ pc'[p] = "idle"
                /\ pc'[p] = "idle" => Len(retry[p].calls) = retry[p].total_to_retry]_vars

\* a pass over two records has called process_article for both and both
\* are still fallback
C36_Witness ==
    \E p \in Procs : /\ run[p].mode = "retry"
                     /\ pc[p] = "retry_item"
                     /\ Len(retry[p].calls) = 2
                     /\ retry[p].successful_heals = 0
                     /\ \A r \in articles : r.source_indicator = "fallback"

\* C37: with two re-processing passes at work on one record, the pass whose
\* enrichment was unavailable leaves the record alone once the other pass
\* has made it ai: its write does not touch a row that is ai.
C37_ConcurrentHealKept ==
    [][\A p \in Procs :
          (Writes(p) /\ art[p].is_retry /\ unavailable(art[p].summary))
          => \A r \in articles :
                (r.url = art[p].url /\ r.source_indicator = "ai") => r \in articles']_vars

\* C38: a backoff sleep is only taken between two attempts: when the
\* enrichment call has returned, it has slept fewer times than it has sent
\* requests.
C38_BackoffOnlyBetweenAttempts ==
    \A p \in Procs :
       (pc[p] = "write" /\ enr[p].sent > 0) => enr[p].backoffs < enr[p].sent

\* the rows the run of p has inserted for the source it is reading
inserted(p) ==
    {r \in articles : r.created_at = clock /\ r.source_name = src[p].source_name}

\* C39: in the candidate loop of a source, and so in the summary printed
\* after it, added is the number of rows the pass has inserted for that
\* source; and when the summary is printed the three counters add up to the
\* number of candidates the source yielded.
C39_AddedCountsInsertedRows ==
    \A p \in Procs :
       /\ (run[p].mode = "normal" /\ pc[p] = "item")
          => src[p].added = Cardinality(inserted(p))
       /\ (run[p].mode = "normal" /\ pc[p] = "source" /\ src[p].source_name # "")
          => src[p].added + src[p].skipped + src[p].failed = src[p].count

\* C40: the title and the description the re-processing loop reads back
\* from a fallback record are the stripped title and the stripped
\* description the record was written from.
C40_FallbackRoundTrip ==
    ret # PendingFields
    => /\ ret.title = strip(call.title)
       /\ ret.description = strip(call.description)

====
